---- MODULE Spec2Model ----
(***************************************************************************)
(* s3mu: resumable multipart upload driven by a write-ahead log.           *)
(*                                                                         *)
(*   src/src/state.rs   Part, Operation, State, State::apply               *)
(*   src/src/actions.rs Action                                             *)
(*   src/src/wal.rs     Wal::open, Wal::append                             *)
(*   src/src/app.rs     App::new, App::apply, App::next_action, App::run   *)
(*   src/src/upload.rs  get_parts and the S3 calls (outcomes only)         *)
(*                                                                         *)
(* The log file is a sequence of tokens: a serialised record, a newline,   *)
(* or the debris of a write that failed half way.  A path is a number, so  *)
(* that get_parts can sort; an etag and an upload id are strings; the msg  *)
(* of a Failed* operation is one abstract string, State::apply ignores it. *)
(***************************************************************************)
EXTENDS Integers, Sequences, FiniteSets, TLC

\* ------------------------------------------------------------------ bounds
MaxFiles == 2
MaxLimit == 1
MaxAttemptVal == 1
MaxFails == 2
MaxRestarts == 2
MaxInitLog == 2
MaxApiCalls == 1
MaxLiveLimit == 2

\* ------------------------------------------------------------- value sets
FileIds == 1..MaxFiles
\* What the pattern matches: the first n files, for any n (a path is stored in
\* its part and never looked at again).
FileSets == {1..n : n \in 0..MaxFiles}
ETags == {"e1", "e2"}
UploadIds == {"U1", "U2"}
AttemptVals == 0..MaxAttemptVal
IndexVals == 0..MaxFiles
Limits == 0..MaxLimit
Msg == "msg"

\* ------------------------------------------------------ state.rs: Part
Part_new(number, path) == [number |-> number, path |-> path, etag |-> ""]

\* ------------------------------------------------- state.rs: Operation
ConfiguredParts(parts) == [type |-> "ConfiguredParts", parts |-> parts]
Started(upload_id) == [type |-> "Started", upload_id |-> upload_id]
FailedStart(attempt) == [type |-> "FailedStart", attempt |-> attempt, msg |-> Msg]
UploadedPart(index, etag) == [type |-> "UploadedPart", index |-> index, etag |-> etag]
FailedPart(index, attempt) ==
    [type |-> "FailedPart", index |-> index, attempt |-> attempt, msg |-> Msg]
FailedComplete(attempt) == [type |-> "FailedComplete", attempt |-> attempt, msg |-> Msg]
OpCompleted == [type |-> "Completed"]
FailedAbort(attempt) == [type |-> "FailedAbort", attempt |-> attempt, msg |-> Msg]
OpAborted == [type |-> "Aborted"]
NoOp == [type |-> "none"]

\* ----------------------------------------------------- state.rs: State
StInit == [type |-> "Init"]
StStarting(parts, attempt) == [type |-> "Starting", parts |-> parts, attempt |-> attempt]
StUploading(parts, upload_id, index, attempt) ==
    [type |-> "Uploading", parts |-> parts, upload_id |-> upload_id,
     index |-> index, attempt |-> attempt]
StCompleting(upload_id, attempt, parts) ==
    [type |-> "Completing", upload_id |-> upload_id, attempt |-> attempt, parts |-> parts]
StCompleted == [type |-> "Completed"]
StAborting(upload_id, attempt) ==
    [type |-> "Aborting", upload_id |-> upload_id, attempt |-> attempt]
StAborted == [type |-> "Aborted"]

State_new == StInit

\* Result<State>
Ok(s) == [ok |-> TRUE, state |-> s]
Err(e) == [ok |-> FALSE, err |-> e]

\* ---------------------------------------------- state.rs: State::apply
ApplyInit(s, o) ==
    IF o.type = "ConfiguredParts"
    THEN IF o.parts = <<>> THEN Err("InvalidState") ELSE Ok(StStarting(o.parts, 0))
    ELSE Err("InvalidState")

\* ApplyStarting with the upload starting at index 1, the number of the first
\* part, instead of its index 0.
ApplyStarting_OneBased(s, o) ==
    CASE o.type = "Started" -> Ok(StUploading(s.parts, o.upload_id, 1, 0))
      [] o.type = "FailedStart" -> Ok(StStarting(s.parts, o.attempt))
      [] OTHER -> Err("InvalidState")

ApplyStarting(s, o) ==
    CASE o.type = "Started" -> Ok(StUploading(s.parts, o.upload_id, 0, 0))
      [] o.type = "FailedStart" -> Ok(StStarting(s.parts, o.attempt))
      [] OTHER -> Err("InvalidState")

\* ApplyUploadedPart with `index += 1` left out: the part is tagged, the index
\* stays.
ApplyUploadedPart_NoAdvance(s, o) ==
    IF o.index >= Len(s.parts)
    THEN Err("IndexOutOfBounds")
    ELSE Ok(StUploading([s.parts EXCEPT ![o.index + 1].etag = o.etag],
                        s.upload_id, o.index, 0))

\* ApplyUploadedPart reporting an index past the end as InvalidState.
ApplyUploadedPart_InvalidState(s, o) ==
    IF o.index >= Len(s.parts)
    THEN Err("InvalidState")
    ELSE LET parts == [s.parts EXCEPT ![o.index + 1].etag = o.etag]
             index == o.index + 1
         IN  IF index = Len(parts)
             THEN Ok(StCompleting(s.upload_id, 0, parts))
             ELSE Ok(StUploading(parts, s.upload_id, index, 0))

\* Operation::UploadedPart { mut index, etag }: the operation's index shadows
\* the state's; parts.get_mut(index) is the only check made on it.
ApplyUploadedPart(s, o) ==
    IF o.index >= Len(s.parts)
    THEN Err("IndexOutOfBounds")
    ELSE LET parts == [s.parts EXCEPT ![o.index + 1].etag = o.etag]
             index == o.index + 1
         IN  IF index = Len(parts)
             THEN Ok(StCompleting(s.upload_id, 0, parts))
             ELSE Ok(StUploading(parts, s.upload_id, index, 0))

\* ApplyFailedPart storing the operation's attempt as recorded, as the
\* FailedStart arm does.
ApplyFailedPart_AsRecorded(s, o) ==
    Ok(StUploading(s.parts, s.upload_id, o.index, o.attempt))

\* ApplyFailedPart counting a failed upload twice.
ApplyFailedPart_CountsTwice(s, o) ==
    Ok(StUploading(s.parts, s.upload_id, o.index, o.attempt + 2))

\* Operation::FailedPart { index, attempt, msg }: both fields shadow the state's.
ApplyFailedPart(s, o) == Ok(StUploading(s.parts, s.upload_id, o.index, o.attempt + 1))

ApplyUploading(s, o) ==
    CASE o.type = "UploadedPart" -> ApplyUploadedPart(s, o)
      [] o.type = "FailedPart" -> ApplyFailedPart(s, o)
      [] OTHER -> Err("InvalidState")

\* ApplyCompleting with FailedComplete rebuilding the state around an empty
\* upload id instead of the state's.
ApplyCompleting_FreshId(s, o) ==
    CASE o.type = "Completed" -> Ok(StCompleted)
      [] o.type = "FailedComplete" -> Ok(StCompleting("", o.attempt + 1, s.parts))
      [] o.type = "Aborted" -> Ok(StAborted)
      [] OTHER -> Err("InvalidState")

ApplyCompleting(s, o) ==
    CASE o.type = "Completed" -> Ok(StCompleted)
      [] o.type = "FailedComplete" -> Ok(StCompleting(s.upload_id, o.attempt + 1, s.parts))
      [] o.type = "Aborted" -> Ok(StAborted)
      [] OTHER -> Err("InvalidState")

ApplyAborting(s, o) ==
    CASE o.type = "Aborted" -> Ok(StAborted)
      [] o.type = "FailedAbort" -> Ok(StAborting(s.upload_id, o.attempt + 1))
      [] OTHER -> Err("InvalidState")

ApplyTerminal(s, o) == Err("InvalidState")

State_apply(s, o) ==
    CASE s.type = "Init" -> ApplyInit(s, o)
      [] s.type = "Starting" -> ApplyStarting(s, o)
      [] s.type = "Uploading" -> ApplyUploading(s, o)
      [] s.type = "Completing" -> ApplyCompleting(s, o)
      [] s.type = "Aborting" -> ApplyAborting(s, o)
      [] s.type = "Completed" -> ApplyTerminal(s, o)
      [] s.type = "Aborted" -> ApplyTerminal(s, o)

\* ------------------------------------------------- actions.rs: Action
LoadParts == [type |-> "LoadParts"]
StartUpload(attempt) == [type |-> "StartUpload", attempt |-> attempt]
Terminate == [type |-> "Terminate"]
Abort(upload_id, attempt) ==
    [type |-> "Abort", upload_id |-> upload_id, attempt |-> attempt, msg |-> Msg]
Complete(upload_id, attempt, parts) ==
    [type |-> "Complete", upload_id |-> upload_id, attempt |-> attempt, parts |-> parts]
UploadPart(upload_id, index, attempt, part) ==
    [type |-> "UploadPart", upload_id |-> upload_id, index |-> index,
     attempt |-> attempt, part |-> part]
NoAction == [type |-> "none"]
Panic == [type |-> "panic"]

\* ------------------------------------------- app.rs: App::next_action
PlanStarting(s, max) ==
    IF s.attempt = max THEN Terminate ELSE StartUpload(s.attempt)

\* parts.get(index).unwrap() panics when index is not a position of parts.
\* PlanUploading giving up only once attempt has passed max: one try too many.
PlanUploading_OneMore(s, max) ==
    IF s.attempt > max
    THEN Abort(s.upload_id, 1)
    ELSE IF s.index < Len(s.parts)
         THEN UploadPart(s.upload_id, s.index, s.attempt, s.parts[s.index + 1])
         ELSE Panic

PlanUploading(s, max) ==
    IF s.attempt = max
    THEN Abort(s.upload_id, 1)
    ELSE IF s.index < Len(s.parts)
         THEN UploadPart(s.upload_id, s.index, s.attempt, s.parts[s.index + 1])
         ELSE Panic

PlanCompleting(s, max) ==
    IF s.attempt = max
    THEN Abort(s.upload_id, 1)
    ELSE Complete(s.upload_id, s.attempt, s.parts)

\* PlanAborting proposing Abort with attempt 1, as the Uploading and Completing
\* arms do, instead of the state's attempt.
PlanAborting_FirstAttempt(s, max) ==
    IF s.attempt = max THEN Terminate ELSE Abort(s.upload_id, 1)

PlanAborting(s, max) ==
    IF s.attempt = max THEN Terminate ELSE Abort(s.upload_id, s.attempt)

next_action(s, max) ==
    CASE s.type = "Init" -> LoadParts
      [] s.type = "Starting" -> PlanStarting(s, max)
      [] s.type = "Uploading" -> PlanUploading(s, max)
      [] s.type = "Completing" -> PlanCompleting(s, max)
      [] s.type = "Completed" -> Terminate
      [] s.type = "Aborting" -> PlanAborting(s, max)
      [] s.type = "Aborted" -> Terminate

\* ------------------------------------------------------------ wal.rs
\* serde_json::to_string(&WalEntry { action }): one JSON object, no newline
\* inside it (serde_json escapes control characters in strings).
Record(o) == [k |-> "rec", action |-> o]
Newline == [k |-> "nl"]
Torn == [k |-> "torn"]

\* stream.lines(): split at newlines; a last line without a newline is still
\* a line, an empty remainder after the last newline is not.
RECURSIVE Lines(_, _)
Lines(f, cur) ==
    IF f = <<>>
    THEN IF cur = <<>> THEN <<>> ELSE <<cur>>
    ELSE IF Head(f).k = "nl"
         THEN <<cur>> \o Lines(Tail(f), <<>>)
         ELSE Lines(Tail(f), Append(cur, Head(f)))

\* serde_json::from_str(&line): exactly one JSON value on the line.
ParsesAsEntry(line) == Len(line) = 1 /\ line[1].k = "rec"

\* Wal_open skipping the lines that do not parse instead of failing.
Wal_open_SkipBad(f) ==
    LET ls == SelectSeq(Lines(f, <<>>), ParsesAsEntry)
    IN  [ok |-> TRUE, entries |-> [i \in 1..Len(ls) |-> ls[i][1].action]]

\* Wal::open: every line must parse, else the whole open is a LoadError.
Wal_open(f) ==
    LET ls == Lines(f, <<>>)
    IN  IF \A i \in 1..Len(ls) : ParsesAsEntry(ls[i])
        THEN [ok |-> TRUE, entries |-> [i \in 1..Len(ls) |-> ls[i][1].action]]
        ELSE Err("LoadError")

\* Wal::append, the write succeeding: write_all(line.as_bytes()) then flush.
Wal_append(f, o) == Append(f, Record(o))

\* App_apply_append_failed with the swap done before the append: the failed
\* append leaves the placeholder in self.state.
App_apply_append_failed_swapped(s) == [state |-> StAborted, ret |-> Err("AppendError")]

\* App::apply when the append failed: `?` returns before the swap at line 51.
App_apply_append_failed(s) == [state |-> s, ret |-> Err("AppendError")]

\* App::apply after the append: self.state is swapped out for the placeholder
\* State::Aborted, and swapped back only when State::apply returned Ok.
App_apply_fold(s, o) ==
    LET r == State_apply(s, o)
    IN  IF r.ok THEN [state |-> r.state, ret |-> Ok(r.state)]
        ELSE [state |-> StAborted, ret |-> r]

\* --------------------------------------------------- app.rs: App::new
\* for entry in log.entries.iter() { state = state.apply(entry.action)?; }
RECURSIVE Replay(_, _)
Replay(s, es) ==
    IF es = <<>>
    THEN Ok(s)
    ELSE LET r == State_apply(s, Head(es))
         IN  IF r.ok THEN Replay(r.state, Tail(es)) ELSE r

App_new(f) ==
    LET w == Wal_open(f)
    IN  IF w.ok THEN Replay(State_new, w.entries) ELSE w

\* ------------------------------------------- upload.rs: get_parts
\* parts.sort_by(compare_file_names): the files found, in ascending order.
get_parts(S) ==
    CHOOSE q \in [1..Cardinality(S) -> S] :
        \A i, j \in 1..Cardinality(S) : i < j => q[i] < q[j]

\* MkParts with the counter starting at 0.
MkParts_ZeroBased(paths) == [i \in 1..Len(paths) |-> Part_new(i - 1, paths[i])]

\* App::run, Action::LoadParts: i = 1; push Part::new(i, path); i += 1.
MkParts(paths) == [i \in 1..Len(paths) |-> Part_new(i, paths[i])]

\* ------------------------------------- what App::run sends to upload.rs
\* Action::UploadPart: part_number = (index + 1) as i64, the file at part.path.
UploadPartRequest(a) == [part_number |-> a.index + 1, path |-> a.part.path]

\* Action::Complete: one CompletedPart { e_tag, part_number } per part.
CompleteRequest(a) ==
    [i \in 1..Len(a.parts) |->
        [e_tag |-> a.parts[i].etag, part_number |-> a.parts[i].number]]

\* ---------------------------------------------------------- inputs
PartLists == {MkParts(get_parts(S)) : S \in FileSets}

Ops ==
    {ConfiguredParts(p) : p \in PartLists}
    \cup {Started(u) : u \in UploadIds}
    \cup {FailedStart(a) : a \in AttemptVals}
    \cup {UploadedPart(i, e) : i \in IndexVals, e \in ETags}
    \cup {FailedPart(i, a) : i \in IndexVals, a \in AttemptVals}
    \cup {FailedComplete(a) : a \in AttemptVals}
    \cup {OpCompleted}
    \cup {FailedAbort(a) : a \in AttemptVals}
    \cup {OpAborted}

\* A log as a well-formed file: every record followed by a newline.
Render(l) ==
    [i \in 1..(2 * Len(l)) |-> IF i % 2 = 1 THEN Record(l[(i + 1) \div 2]) ELSE Newline]

\* The logs of at most n records that replay accepts (a prefix of an accepted
\* log is accepted).
RECURSIVE AcceptedUpTo(_)
AcceptedUpTo(n) ==
    IF n = 0
    THEN {<<>>}
    ELSE LET shorter == AcceptedUpTo(n - 1)
         IN  shorter \cup {l \in {Append(q, o) : q \in shorter, o \in Ops} :
                               Replay(State_new, l).ok}

AcceptedLogs == AcceptedUpTo(MaxInitLog)

\* ------------------------------------------------------------ state
VARIABLES
    file,          \* the log file on disk
    entries,       \* Wal.entries: what open read
    state,         \* App.state
    max_attempts,  \* App.max_attempts
    proc,          \* none, running, crashed, run_ok, run_err, new_err, panicked
    pc,            \* where App::run is: plan, call, append, fold
    action,        \* next_action of the current iteration
    op,            \* the operation the iteration produced
    err,           \* the error App::new or App::run or App::apply returned
    pre,           \* self.state on entry to the last App::apply
    fails,         \* consecutive failed collaborator calls in the current phase
    restarts,      \* processes started so far
    uploaded,      \* indexes whose UploadedPart a run has appended
    written        \* operations this process has appended

vars == <<file, entries, state, max_attempts, proc, pc, action, op, err, pre,
          fails, restarts, uploaded, written>>

InitCommon ==
    /\ entries = <<>>
    /\ state = State_new
    /\ max_attempts = 0
    /\ proc = "none"
    /\ pc = "plan"
    /\ action = NoAction
    /\ op = NoOp
    /\ err = "none"
    /\ pre = State_new
    /\ fails = 0
    /\ restarts = 0
    /\ uploaded = {}
    /\ written = <<>>

\* The log file exists and is empty: the first run of an upload.
Init == file = <<>> /\ InitCommon

\* The log file holds any log that replay accepts.
InitResume == file \in {Render(l) : l \in AcceptedLogs} /\ InitCommon

\* --------------------------------------------------- App::new (main)
New(m) ==
    /\ proc # "running"
    /\ restarts < MaxRestarts
    /\ restarts' = restarts + 1
    /\ LET w == Wal_open(file)
           r == App_new(file)
       IN  IF r.ok
           THEN /\ proc' = "running"
                /\ state' = r.state
                /\ pre' = r.state
                /\ entries' = w.entries
                /\ max_attempts' = m
                /\ err' = "none"
           ELSE /\ proc' = "new_err"
                /\ err' = r.err
                /\ UNCHANGED <<state, pre, entries, max_attempts>>
    /\ pc' = "plan"
    /\ action' = NoAction
    /\ op' = NoOp
    /\ fails' = 0
    /\ written' = <<>>
    /\ UNCHANGED <<file, uploaded>>

\* ------------------------------------------------------- App::run
SamePhase(a, b) ==
    /\ a.type = b.type
    /\ (a.type = "UploadPart" => a.index = b.index)

Plan ==
    /\ proc = "running" /\ pc = "plan"
    /\ LET a == next_action(state, max_attempts)
       IN  /\ action' = a
           /\ proc' = CASE a.type = "Terminate" -> "run_ok"
                        [] a.type = "panic" -> "panicked"
                        [] OTHER -> "running"
           /\ pc' = IF a.type \in {"Terminate", "panic"} THEN "plan" ELSE "call"
           /\ fails' = IF SamePhase(action, a) THEN fails ELSE 0
    /\ op' = NoOp
    /\ UNCHANGED <<file, entries, state, max_attempts, err, pre, restarts,
                   uploaded, written>>

Calling(t) == proc = "running" /\ pc = "call" /\ action.type = t

CallOk(o) ==
    /\ op' = o
    /\ pc' = "append"
    /\ fails' = 0
    /\ UNCHANGED <<file, entries, state, max_attempts, proc, action, err, pre,
                   restarts, uploaded, written>>

CallFailed(o) ==
    /\ fails < MaxFails
    /\ op' = o
    /\ pc' = "append"
    /\ fails' = fails + 1
    /\ UNCHANGED <<file, entries, state, max_attempts, proc, action, err, pre,
                   restarts, uploaded, written>>

\* upload::get_parts(..)? and path.to_str().ok_or_else(..)?: an error returns
\* from run.
DoLoadParts ==
    /\ Calling("LoadParts")
    /\ \/ \E S \in FileSets : CallOk(ConfiguredParts(MkParts(get_parts(S))))
       \/ /\ proc' = "run_err"
          /\ err' = "Other"
          /\ UNCHANGED <<file, entries, state, max_attempts, pc, action, op, pre,
                         fails, restarts, uploaded, written>>

DoStartUpload ==
    /\ Calling("StartUpload")
    /\ \/ \E u \in UploadIds : CallOk(Started(u))
       \/ CallFailed(FailedStart(action.attempt))

DoUploadPart ==
    /\ Calling("UploadPart")
    /\ \/ \E e \in ETags : CallOk(UploadedPart(action.index, e))
       \/ CallFailed(FailedPart(action.index, action.attempt))

DoAbort ==
    /\ Calling("Abort")
    /\ \/ CallOk(OpAborted)
       \/ CallFailed(FailedAbort(action.attempt))

DoComplete ==
    /\ Calling("Complete")
    /\ \/ CallOk(OpCompleted)
       \/ CallFailed(FailedComplete(action.attempt))

\* App::apply, line 48: self.log.append(WalEntry::new(op.clone())).await?
AppendLog ==
    /\ proc = "running" /\ pc = "append"
    /\ pre' = state
    /\ \/ /\ file' = Wal_append(file, op)
          /\ written' = Append(written, op)
          /\ uploaded' = IF op.type = "UploadedPart" THEN uploaded \cup {op.index}
                         ELSE uploaded
          /\ pc' = "fold"
          /\ UNCHANGED <<state, proc, err>>
       \/ /\ file' \in {file, Append(file, Torn)}
          /\ state' = App_apply_append_failed(state).state
          /\ err' = App_apply_append_failed(state).ret.err
          /\ proc' = "run_err"
          /\ UNCHANGED <<pc, written, uploaded>>
    /\ UNCHANGED <<entries, max_attempts, action, op, fails, restarts>>

\* App::apply, lines 50-56: swap, State::apply, swap back.
Fold ==
    /\ proc = "running" /\ pc = "fold"
    /\ LET a == App_apply_fold(state, op)
       IN  /\ state' = a.state
           /\ IF a.ret.ok
              THEN pc' = "plan" /\ UNCHANGED <<proc, err>>
              ELSE proc' = "run_err" /\ err' = a.ret.err /\ pc' = pc
    /\ UNCHANGED <<file, entries, max_attempts, action, op, pre, fails, restarts,
                   uploaded, written>>

\* The process is killed at any point; the file stays, the rest is kept only
\* as a record of what the process held.
Crash ==
    /\ proc = "running"
    /\ proc' = "crashed"
    /\ UNCHANGED <<file, entries, state, max_attempts, pc, action, op, err, pre,
                   fails, restarts, uploaded, written>>

Next ==
    \/ \E m \in Limits : New(m)
    \/ Plan
    \/ DoLoadParts
    \/ DoStartUpload
    \/ DoUploadPart
    \/ DoAbort
    \/ DoComplete
    \/ AppendLog
    \/ Fold
    \/ Crash

Spec == Init /\ [][Next]_vars
SpecResume == InitResume /\ [][Next]_vars

\* ---------------------------------------- App::apply called on any state
\* Part lists as a State can hold them: any etag set or not.
StateParts ==
    UNION {{[i \in DOMAIN p |-> [p[i] EXCEPT !.etag = t[i]]] :
                t \in [DOMAIN p -> {""} \cup ETags]} : p \in PartLists}

AllStates ==
    {StInit, StCompleted, StAborted}
    \cup {StStarting(p, a) : p \in StateParts, a \in AttemptVals}
    \cup {StUploading(p, u, i, a) :
              p \in StateParts, u \in UploadIds, i \in IndexVals, a \in AttemptVals}
    \cup {StCompleting(u, a, p) : u \in UploadIds, a \in AttemptVals, p \in StateParts}
    \cup {StAborting(u, a) : u \in UploadIds, a \in AttemptVals}

InitApply ==
    /\ file = <<>>
    /\ entries = <<>>
    /\ state \in AllStates
    /\ max_attempts = 0
    /\ proc = "api"
    /\ pc = "plan"
    /\ action = NoAction
    /\ op = NoOp
    /\ err = "none"
    /\ pre = state
    /\ fails = 0
    /\ restarts = 0
    /\ uploaded = {}
    /\ written = <<>>

\* pub async fn apply(&mut self, op: Operation): the whole call, any operation.
ApiApply(o) ==
    /\ proc = "api"
    /\ Len(file) < MaxApiCalls
    /\ pre' = state
    /\ op' = o
    /\ \/ /\ file' = Wal_append(file, o)
          /\ state' = App_apply_fold(state, o).state
          /\ err' = IF App_apply_fold(state, o).ret.ok THEN "none"
                    ELSE App_apply_fold(state, o).ret.err
       \/ /\ file' \in {file, Append(file, Torn)}
          /\ state' = App_apply_append_failed(state).state
          /\ err' = App_apply_append_failed(state).ret.err
    /\ UNCHANGED <<entries, max_attempts, proc, pc, action, fails, restarts,
                   uploaded, written>>

NextApply == \E o \in Ops : ApiApply(o)

SpecApply == InitApply /\ [][NextApply]_vars

\* ------------------------------- App::new's replay loop, one record a step
\* The records come from a log of any content and any length; the loop ends
\* at the first record State::apply rejects.
InitReplay == file = <<>> /\ InitCommon

ReplayStep(o) ==
    /\ proc = "none"
    /\ err = "none"
    /\ pre' = state
    /\ op' = o
    /\ LET r == State_apply(state, o)
       IN  IF r.ok
           THEN state' = r.state /\ err' = err
           ELSE state' = state /\ err' = r.err
    /\ UNCHANGED <<file, entries, max_attempts, proc, pc, action, fails, restarts,
                   uploaded, written>>

NextReplay == \E o \in Ops : ReplayStep(o)

SpecReplay == InitReplay /\ [][NextReplay]_vars

\* ------------------------------- App::next_action called on any state
\* The planner is a function of the state and max_attempts alone: it is
\* planned once from every state, under every max_attempts.
InitPlan ==
    /\ file = <<>>
    /\ entries = <<>>
    /\ state \in AllStates
    /\ max_attempts \in Limits
    /\ proc = "running"
    /\ pc = "plan"
    /\ action = NoAction
    /\ op = NoOp
    /\ err = "none"
    /\ pre = state
    /\ fails = 0
    /\ restarts = 0
    /\ uploaded = {}
    /\ written = <<>>

NextPlan == Plan

SpecPlan == InitPlan /\ [][NextPlan]_vars

\* ------------------------------------------ App::run, one undisturbed run
\* One process on an empty log with max_attempts of at least one: it is not
\* killed, every append succeeds, discovery finds at least one file, and no
\* collaborator call fails max_attempts times in a row. The loop of App::run
\* keeps taking its next step for as long as it has one.
LiveLimits == 1..MaxLiveLimit

FewerThanMax == fails' < max_attempts

NextLive ==
    \/ \E m \in LiveLimits : restarts = 0 /\ New(m)
    \/ Plan
    \/ DoLoadParts /\ op'.type = "ConfiguredParts" /\ op'.parts # <<>>
    \/ DoStartUpload /\ FewerThanMax
    \/ DoUploadPart /\ FewerThanMax
    \/ DoComplete /\ FewerThanMax
    \/ AppendLog /\ pc' = "fold"
    \/ Fold

SpecLive == Init /\ [][NextLive]_vars /\ WF_vars(NextLive)

\* ================================================================ claims
NoTorn(f) == \A i \in 1..Len(f) : f[i].k # "torn"
FailedTypes == {"FailedStart", "FailedPart", "FailedComplete", "FailedAbort"}
Last(q) == q[Len(q)]

\* C1: once a run has appended UploadedPart for index i, no planning step,
\* in that process or in one resumed from the log, proposes UploadPart for i.
C1_NoReupload == Calling("UploadPart") => action.index \notin uploaded

\* A resumed process, which has appended nothing itself, is about to upload a
\* part while an earlier process's UploadedPart is in the log.
C1_Witness == Calling("UploadPart") /\ uploaded # {} /\ written = <<>> /\ restarts = 2

\* C2: a process constructed after an earlier one stopped (not in the middle
\* of App::apply, the log not damaged) holds the state the earlier one held.
C2_RecoveryRestoresState ==
    [][(/\ proc \in {"crashed", "run_ok", "run_err"}
        /\ restarts' # restarts
        /\ pc # "fold"
        /\ NoTorn(file))
       => (proc' = "running" /\ state' = state)]_vars

\* C3: while a process's appends have all succeeded, opening the file gives
\* the records open read followed by the appended operations, in order.
C3_AppendOpenRoundTrip ==
    (proc = "running" /\ written # <<>>)
        => Wal_open(file) = [ok |-> TRUE, entries |-> entries \o written]

\* C4: no phase sees more than max_attempts consecutive failed calls.
C4_RetriesBounded == proc = "running" => fails <= max_attempts

\* C5: once the planner has escalated from Uploading to Abort, App::run does
\* not return an error (other than a failed append).
C5_AbortEscalationNoError ==
    (proc = "run_err" /\ action.type = "Abort" /\ pre.type = "Uploading")
        => err = "AppendError"

\* C6: a failed collaborator call never makes App::run return an error; only
\* a failed append of the resulting operation may.
C6_FailuresNotFatal ==
    proc = "run_err" => (err # "Other" /\ (op.type \in FailedTypes => err = "AppendError"))

\* C7: the file changes only in the append step, with the operation the call
\* produced; the state changes only in the fold step, after that operation is
\* in the file; planning happens only after the fold; a failed append leaves
\* the state as it was, ends run with the error, and nothing follows it.
C7_StepOrder ==
    [][/\ (file' # file) => (proc = "running" /\ pc = "append" /\ op.type # "none")
       /\ (file' # file /\ proc' = "running") => (file' = Append(file, Record(op)) /\ pc' = "fold")
       /\ (state' # state /\ proc = "running")
              => (pc = "fold" /\ file # <<>> /\ Last(file) = Record(op))
       /\ (action' # action /\ proc = "running")
              => (/\ pc = "plan"
                  /\ written # <<>> => State_apply(pre, Last(written)) = Ok(state))
       /\ (proc = "running" /\ pc = "append" /\ proc' = "run_err")
              => (state' = state /\ err' = "AppendError" /\ pc' = "append")
       /\ (proc = "run_err" /\ proc' = "run_err") => UNCHANGED vars
      ]_vars

\* An append has failed: run has returned the error and the state is the one
\* App::apply was entered with.
C7_Witness ==
    proc = "run_err" /\ err = "AppendError" /\ state = pre /\ written # <<>>

\* The rows of the transition table of section 4.2.
InTable(s, o) ==
    \/ s.type = "Init" /\ o.type = "ConfiguredParts"
    \/ s.type = "Starting" /\ o.type \in {"Started", "FailedStart"}
    \/ s.type = "Uploading" /\ o.type = "UploadedPart"
           /\ (o.index = s.index \/ o.index >= Len(s.parts))
    \/ s.type = "Uploading" /\ o.type = "FailedPart"
    \/ s.type = "Completing" /\ o.type \in {"Completed", "FailedComplete", "Aborted"}
    \/ s.type = "Aborting" /\ o.type \in {"Aborted", "FailedAbort"}

\* C8: a (state, operation) pair that is not a row of the table is rejected
\* with InvalidState.
C8_ExactlyTheTable ==
    (op.type # "none" /\ err # "AppendError")
        => (InTable(pre, op) \/ err = "InvalidState")

\* C9: an operation applied to Completed or Aborted yields InvalidState and
\* the App still holds that terminal state.
C9_TerminalImmutable ==
    (op.type # "none" /\ err # "AppendError" /\ pre.type \in {"Completed", "Aborted"})
        => (err = "InvalidState" /\ state = pre)

\* C10: along an accepted sequence the index of Uploading never decreases and
\* never exceeds the number of parts.
C10_MonotonicIndex ==
    [][state'.type = "Uploading"
        => (/\ state'.index <= Len(state'.parts)
            /\ state.type = "Uploading" => state'.index >= state.index)]_vars

HasParts(s) == s.type \in {"Starting", "Uploading", "Completing"}
HasId(s) == s.type \in {"Uploading", "Completing", "Aborting"}

\* C11: along an accepted sequence the parts keep their number, order,
\* numbers and paths; an etag changes only at the current Uploading index,
\* and only from unset to set.
C11_PartsImmutable ==
    [][(HasParts(state) /\ HasParts(state'))
        => /\ Len(state'.parts) = Len(state.parts)
           /\ \A i \in 1..Len(state.parts) :
                 /\ state'.parts[i].number = state.parts[i].number
                 /\ state'.parts[i].path = state.parts[i].path
                 /\ state'.parts[i].etag # state.parts[i].etag
                       => /\ state.type = "Uploading"
                          /\ i = state.index + 1
                          /\ state.parts[i].etag = ""]_vars

ProposesForUpload(a) == a.type \in {"UploadPart", "Complete", "Abort"}

\* C12: a state gets its upload id from Started, applied in Starting, and
\* from nowhere else; every later state that has an upload id has that same
\* one, and every action planned from such a state, under any max_attempts,
\* carries it.
C12_UploadIdSetOnce ==
    [][/\ (HasId(state') /\ ~HasId(state))
            => /\ state.type = "Starting"
               /\ op'.type = "Started"
               /\ state'.upload_id = op'.upload_id
       /\ (HasId(state') /\ HasId(state))
            => state'.upload_id = state.upload_id
       /\ HasId(state')
            => \A m \in Limits :
                  ProposesForUpload(next_action(state', m))
                      => next_action(state', m).upload_id = state'.upload_id]_vars

\* A Completing state that kept its upload id through a FailedComplete.
C12_Witness ==
    /\ op.type = "FailedComplete"
    /\ pre.type = "Completing"
    /\ state.type = "Completing"
    /\ state.upload_id = pre.upload_id
    /\ state.upload_id \in UploadIds
    /\ err = "none"

HasAttempt(s) == s.type \in {"Starting", "Uploading", "Completing"}

\* The phase of s continues in t: same kind of state and, for Uploading, the
\* same index.
SamePhaseState(s, t) ==
    /\ s.type = t.type
    /\ (s.type = "Uploading" => s.index = t.index)

FailedOf(s) ==
    CASE s.type = "Starting" -> "FailedStart"
      [] s.type = "Uploading" -> "FailedPart"
      [] s.type = "Completing" -> "FailedComplete"
      [] OTHER -> "none"

\* C13: in a run, each operation folded into the state either enters a phase
\* (Starting, Uploading of a new index, Completing) with attempt 0, or stays
\* in the phase, where the phase's Failed* operation adds one to attempt and
\* nothing else changes it.
C13_AttemptPerPhase ==
    [][(proc = "running" /\ pc = "fold" /\ proc' = "running" /\ HasAttempt(state'))
        => IF SamePhaseState(state, state')
           THEN state'.attempt =
                    IF op.type = FailedOf(state) THEN state.attempt + 1
                    ELSE state.attempt
           ELSE state'.attempt = 0]_vars

\* C14: in every Completing state reached by folding an accepted sequence
\* from Init, every part has its etag set.
C14_CompletingAllUploaded ==
    state.type = "Completing"
        => \A i \in 1..Len(state.parts) : state.parts[i].etag \in ETags

\* The policy table of the planner, row by row.
PolicyTable(s, max) ==
    CASE s.type = "Init" -> LoadParts
      [] s.type = "Starting" ->
            IF s.attempt = max THEN Terminate ELSE StartUpload(s.attempt)
      [] s.type = "Uploading" ->
            IF s.attempt = max THEN Abort(s.upload_id, 1)
            ELSE UploadPart(s.upload_id, s.index, s.attempt, s.parts[s.index + 1])
      [] s.type = "Completing" ->
            IF s.attempt = max THEN Abort(s.upload_id, 1)
            ELSE Complete(s.upload_id, s.attempt, s.parts)
      [] s.type = "Aborting" ->
            IF s.attempt = max THEN Terminate ELSE Abort(s.upload_id, s.attempt)
      [] s.type \in {"Completed", "Aborted"} -> Terminate

\* The table names parts[index] in the Uploading row: it has an entry only
\* where that part exists.
PolicyTableDefined(s, max) ==
    (s.type = "Uploading" /\ s.attempt # max) => s.index < Len(s.parts)

\* C15: planning leaves the state as it is and, wherever the policy table has
\* an entry, proposes the action of that entry.
C15_PlannerMatchesTable ==
    [][(proc = "running" /\ pc = "plan")
        => /\ state' = state
           /\ PolicyTableDefined(state, max_attempts)
                 => action' = PolicyTable(state, max_attempts)]_vars

\* The planner proposed a retry of Abort from an Aborting state.
C15_Witness ==
    /\ proc = "running" /\ pc = "call"
    /\ state.type = "Aborting"
    /\ action = Abort(state.upload_id, state.attempt)
    /\ state.attempt # max_attempts

C17_ReplayKeepsAttempt ==
    (op.type = "FailedPart" /\ err = "none")
        => /\ state.type = "Uploading"
           /\ state.index = op.index
           /\ state.attempt = op.attempt
           /\ \A m \in Limits :
                 /\ next_action(state, m).type = "UploadPart"
                 /\ next_action(state, m).index = op.index
                 /\ next_action(state, m).attempt = op.attempt

\* C17, amended: a log ending in FailedPart(i, a, _) replays to
\* Uploading{index: i, attempt: a + 1}, parts and upload id as before, and
\* UploadPart{index: i, attempt: a + 1} is proposed next where max_attempts
\* is not a + 1 and part i exists.
C17_ReplayCountsRecordedFailure ==
    (op.type = "FailedPart" /\ err = "none")
        => /\ state = StUploading(pre.parts, pre.upload_id, op.index, op.attempt + 1)
           /\ \A m \in Limits :
                 (m # op.attempt + 1 /\ op.index < Len(state.parts))
                     => next_action(state, m) =
                            UploadPart(state.upload_id, op.index, op.attempt + 1,
                                       state.parts[op.index + 1])

\* The log [ConfiguredParts([P1]), Started("U1"), FailedPart(0, 1, _)] has
\* been replayed.
C17_Witness ==
    /\ op = FailedPart(0, 1)
    /\ pre = StUploading(MkParts(<<1>>), "U1", 0, 0)
    /\ state = StUploading(MkParts(<<1>>), "U1", 0, 2)
    /\ err = "none"

\* The first n parts of p carry an etag, the others none.
TaggedUpTo(p, n) ==
    \A i \in 1..Len(p) : IF i <= n THEN p[i].etag \in ETags ELSE p[i].etag = ""

\* The states of the happy path: no failure so far, parts tagged in order.
HappyState(s) ==
    CASE s.type = "Init" -> TRUE
      [] s.type = "Starting" -> s.attempt = 0 /\ s.parts # <<>> /\ TaggedUpTo(s.parts, 0)
      [] s.type = "Uploading" ->
            s.attempt = 0 /\ s.index < Len(s.parts) /\ TaggedUpTo(s.parts, s.index)
      [] s.type = "Completing" ->
            s.attempt = 0 /\ s.parts # <<>> /\ TaggedUpTo(s.parts, Len(s.parts))
      [] OTHER -> FALSE

\* The operation the happy path applies in s.
HappyOp(s, o) ==
    CASE s.type = "Init" -> o.type = "ConfiguredParts" /\ o.parts # <<>>
      [] s.type = "Starting" -> o.type = "Started"
      [] s.type = "Uploading" -> o.type = "UploadedPart" /\ o.index = s.index
      [] s.type = "Completing" -> o.type = "Completed"
      [] OTHER -> FALSE

\* The state the happy path is in after o.
HappyNext(s, o) ==
    CASE s.type = "Init" -> StStarting(o.parts, 0)
      [] s.type = "Starting" -> StUploading(s.parts, o.upload_id, 0, 0)
      [] s.type = "Uploading" ->
            LET tagged == [i \in 1..Len(s.parts) |->
                              IF i = s.index + 1
                              THEN [number |-> s.parts[i].number,
                                    path |-> s.parts[i].path, etag |-> o.etag]
                              ELSE s.parts[i]]
            IN  IF s.index + 1 = Len(s.parts)
                THEN StCompleting(s.upload_id, 0, tagged)
                ELSE StUploading(tagged, s.upload_id, s.index + 1, 0)
      [] s.type = "Completing" -> StCompleted

\* C18: from Init the operations ConfiguredParts(parts not empty), Started,
\* UploadedPart(0) .. UploadedPart(N-1), Completed are each accepted and lead
\* through Starting{attempt 0}, Uploading{index 0} .. Uploading{index N-1},
\* Completing to Completed.
C18_HappyPath ==
    [][(HappyState(state) /\ HappyOp(state, op'))
        => /\ err' = "none"
           /\ state' = HappyNext(state, op')
           /\ (HappyState(state') \/ state' = StCompleted)]_vars

\* Completed was applied to the Completing state of a list of MaxFiles parts,
\* all tagged.
C18_Witness ==
    /\ state = StCompleted
    /\ op = OpCompleted
    /\ pre.type = "Completing"
    /\ HappyState(pre)
    /\ Len(pre.parts) = MaxFiles
    /\ err = "none"

\* C19: UploadedPart(idx, etag) applied to an Uploading state with
\* idx >= parts.len() fails with IndexOutOfBounds and gives no new state.
C19_IndexOutOfBounds ==
    [][(state.type = "Uploading" /\ err = "none"
            /\ op'.type = "UploadedPart" /\ op'.index >= Len(state.parts))
        => (err' = "IndexOutOfBounds" /\ state' = state)]_vars

\* UploadedPart for an index past the end was refused in an Uploading state
\* that has parts.
C19_Witness ==
    /\ err = "IndexOutOfBounds"
    /\ op.type = "UploadedPart"
    /\ state.type = "Uploading"
    /\ state.parts # <<>>
    /\ op.index >= Len(state.parts)

IsRecord(t) == t.k = "rec"

\* The operations of the records written in f, in file order.
RecordsOf(f) ==
    LET rs == SelectSeq(f, IsRecord) IN [i \in 1..Len(rs) |-> rs[i].action]

\* What stands at position i of f makes a line that is not one record: a
\* torn record, a record with more text after it on its line, or an empty
\* line.
BadRecordAt(f, i) ==
    \/ f[i].k = "torn"
    \/ f[i].k = "rec" /\ i < Len(f) /\ f[i + 1].k # "nl"
    \/ f[i].k = "nl" /\ (i = 1 \/ f[i - 1].k = "nl")

\* C20: when a process is constructed, a file with any record that does not
\* parse gives LoadError and no process, hence no entries; a file whose
\* records all parse never gives LoadError, and the process constructed from
\* it holds every record of the file, in file order.
C20_OpenAllOrNothing ==
    [][restarts' # restarts
        => IF \E i \in 1..Len(file) : BadRecordAt(file, i)
           THEN proc' = "new_err" /\ err' = "LoadError"
           ELSE /\ err' # "LoadError"
                /\ proc' = "running" => entries' = RecordsOf(file)]_vars

\* Opening failed on a file whose first line is a well-formed record and
\* which has a bad line further on.
C20_Witness ==
    /\ proc = "new_err" /\ err = "LoadError"
    /\ Len(file) >= 3
    /\ file[1].k = "rec" /\ file[2].k = "nl"
    /\ \E i \in 3..Len(file) : BadRecordAt(file, i)

\* C21: in the first process on an empty log, however the collaborators
\* answer and however run ended, the operations appended so far fold from
\* Init without an error.
C21_LogReplayable ==
    (restarts = 1 /\ proc \in {"running", "run_ok", "run_err", "panicked"})
        => Replay(State_new, written).ok

\* C22: a call of App::apply that returns an error, from the append or from
\* State::apply, leaves the App holding the state it held before the call.
C22_ApplyErrorKeepsState ==
    (proc = "api" /\ op.type # "none" /\ err # "none") => state = pre

IsUploadedPart(o) == o.type = "UploadedPart"

\* The UploadedPart operations in w are one per part of p, for the indexes
\* 0 .. Len(p) - 1 in that order.
OnePerPartInOrder(w, p) ==
    LET us == SelectSeq(w, IsUploadedPart)
    IN  /\ Len(us) = Len(p)
        /\ \A i \in 1..Len(us) : us[i].index = i - 1

\* App::run has returned Ok from a Completed state, having logged a
\* non-empty part list and one UploadedPart per part in index order.
RunCompleted ==
    /\ proc = "run_ok"
    /\ state = StCompleted
    /\ action = Terminate
    /\ written # <<>>
    /\ written[1].type = "ConfiguredParts"
    /\ written[1].parts # <<>>
    /\ OnePerPartInOrder(written, written[1].parts)

\* C23: an undisturbed run whose collaborators fail fewer than max_attempts
\* times in a row eventually returns Ok from Completed, with one
\* UploadedPart per part logged in index order.
C23_Progress == <>RunCompleted

\* The run completed after a collaborator call had failed and been retried.
C23_Witness ==
    /\ RunCompleted
    /\ \E i \in 1..Len(written) : written[i].type \in FailedTypes
    /\ Len(written[1].parts) = MaxFiles

RetryActions == {"StartUpload", "UploadPart", "Complete"}

\* C24: a process that holds a state whose attempt is max_attempts or more,
\* as one resumed under a lower max_attempts can, is not proposed a further
\* attempt of the phase.
C24_RetryBoundSurvivesRestart ==
    (proc = "running" /\ pc = "call" /\ action.type \in RetryActions)
        => state.attempt < max_attempts

\* C25: in every Uploading state that replay of an accepted log reaches,
\* index < parts.len().
C25_PlannerDefined ==
    state.type = "Uploading" => state.index < Len(state.parts)

\* C26: the parts LoadParts creates are numbered 1..N in discovery order;
\* the part number sent with an upload is the number of the part uploaded;
\* and Complete sends, for each number 1..N, the etag that the upload sent
\* under that number returned.
C26_PartNumbering ==
    /\ (proc = "running" /\ pc = "append" /\ op.type = "ConfiguredParts")
          => \A i \in 1..Len(op.parts) :
                /\ op.parts[i].number = i
                /\ \A j \in 1..Len(op.parts) :
                      i < j => op.parts[i].path < op.parts[j].path
    /\ Calling("UploadPart")
          => /\ action.part = state.parts[action.index + 1]
             /\ UploadPartRequest(action).part_number = action.part.number
             /\ UploadPartRequest(action).path = action.part.path
    /\ Calling("Complete")
          => \A i \in 1..Len(CompleteRequest(action)) :
                /\ CompleteRequest(action)[i].part_number = i
                /\ \E k \in 1..Len(written) :
                      /\ written[k].type = "UploadedPart"
                      /\ written[k].index + 1 = CompleteRequest(action)[i].part_number
                      /\ written[k].etag = CompleteRequest(action)[i].e_tag

\* Complete is about to be sent for MaxFiles parts whose uploads returned
\* different etags.
C26_Witness ==
    /\ Calling("Complete")
    /\ Len(action.parts) = MaxFiles
    /\ action.parts[1].etag # action.parts[MaxFiles].etag

====
